---- MODULE Spec2Model ----
(***************************************************************************)
(* A model of wikidata_history_extractor.py: the checkpointed pipeline     *)
(* main() drives (parse the XML dumps, diff the revisions of every item,   *)
(* compile the triple operations through a queue and a single writer)      *)
(* over a small file system, with the process killed at arbitrary points   *)
(* and main() invoked again.                                               *)
(***************************************************************************)
EXTENDS Integers, Sequences, FiniteSets, TLC

\* ------------------------------------------------------------------------
\* Values
\* ------------------------------------------------------------------------

\* Python's None, and a value that is not None.
None == <<>>
Some(v) == <<v>>

\* The concatenation of a sequence of sequences.
Flatten(ss) ==
  LET upTo[i \in 0..Len(ss)] == IF i = 0 THEN <<>> ELSE upTo[i - 1] \o ss[i]
  IN upTo[Len(ss)]

\* The elements of a sequence.
Range(s) == {s[i] : i \in 1..Len(s)}

\* Every ordering of a finite set: the orders in which Python may iterate it.
Orderings(S) ==
  {f \in [1..Cardinality(S) -> S] : \A i, j \in 1..Cardinality(S) : f[i] = f[j] => i = j}

\* ------------------------------------------------------------------------
\* The input: the downloaded XML dumps, read line by line
\* ------------------------------------------------------------------------

\* The names dump files may have.
Archives == {"a1", "a2"}

\* The lines parse_xml_dump tells apart.
Title(pfx, n) == [tag |-> "title", val |-> <<pfx, n>>]
Redirect(pfx, n) == [tag |-> "redirect", val |-> <<pfx, n>>]
RevId(n) == [tag |-> "id", val |-> n]
Timestamp(t) == [tag |-> "timestamp", val |-> t]
Format(f) == [tag |-> "format", val |-> f]
Text(payload) == [tag |-> "text", val |-> payload]
EndRevision == [tag |-> "endrevision", val |-> None]
EndPage == [tag |-> "endpage", val |-> None]

\* One statement of an entity document: its rank and its mainsnak.
Stmt(rank, snaktype, datavalue, dvtype, etype, numid) ==
  [rank |-> rank, snaktype |-> snaktype, datavalue |-> datavalue,
   dvtype |-> dvtype, etype |-> etype, numid |-> numid]

\* A statement whose value is the item Q<numid>.
ItemStmt(rank, numid) == Stmt(rank, "value", TRUE, "wikibase-entityid", "item", numid)

\* The text of a revision: an entity document (JSON), or text json.loads rejects.
Doc(id, claims) == [kind |-> "json", hasType |-> TRUE, hasId |-> TRUE, id |-> id, claims |-> claims]
Malformed == [kind |-> "malformed"]

\* The lines of one revision and of one page.
RevLines(rev, ts, payload) ==
  <<RevId(rev), Timestamp(ts), Format("application/json"), Text(payload), EndRevision>>
PageLines(item, revs) == <<Title("Q", item)>> \o revs \o <<EndPage>>

\* Entity documents of the scenarios: P<p> statements of item Q<id>.
DocQ1 == Doc(1, << <<2, <<ItemStmt("normal", 3)>> >>, <<3, <<ItemStmt("normal", 2)>> >> >>)
DocQ2 == Doc(2, << <<1, <<ItemStmt("normal", 3)>> >>, <<3, <<ItemStmt("normal", 3)>> >> >>)
DocQ3 == Doc(3, << <<1, <<ItemStmt("normal", 2)>> >> >>)
\* A document of page Q2 whose own id is Q3.
DocWrongId == Doc(3, << <<1, <<ItemStmt("normal", 2)>> >> >>)

\* The scenarios main() is run on from its start to its end: for each, the
\* dump files and the lines of each.
MainDumps == <<
  \* two dumps, one item each
  [a1 |-> PageLines(1, RevLines(11, 1, DocQ1)),
   a2 |-> PageLines(2, RevLines(21, 2, DocQ2))],
  \* one dump with two items, the document of the second names another item
  [a1 |-> PageLines(1, RevLines(11, 1, DocQ1)) \o PageLines(2, RevLines(21, 2, DocWrongId))],
  \* one dump with two items, the second one's text is not JSON
  [a1 |-> PageLines(3, RevLines(31, 1, DocQ3)) \o PageLines(2, RevLines(21, 2, Malformed))]
>>

\* The most statements the one relation of a generated document has.
MaxStatements == 2

\* The ranks of a statement, and the values told apart: an item, a string, and
\* "somevalue", which has no datavalue.
StmtRanks == <<"normal", "preferred", "deprecated">>
StmtValues == <<"item", "string", "somevalue">>

\* The statement at place i of its relation with the given rank and value; an
\* item value is Q<i + 1>, so that no two statements give the same triple.
GenStmt(rank, value, i) ==
  IF value = "item" THEN ItemStmt(rank, i + 1)
  ELSE IF value = "string" THEN Stmt(rank, "value", TRUE, "string", "", 0)
  ELSE Stmt(rank, "somevalue", FALSE, "", "", 0)

\* The documents of Q1 with one relation, P2, of n statements: every choice of
\* rank and value for every statement, told by the digits of a code.
GenChoices == Len(StmtRanks) * Len(StmtValues)
GenDocsOf(n) ==
  [code \in 1..(GenChoices ^ n) |->
     Doc(1, << <<2, [i \in 1..n |->
                       LET digit == ((code - 1) \div (GenChoices ^ (i - 1))) % GenChoices
                       IN GenStmt(StmtRanks[(digit \div Len(StmtValues)) + 1],
                                  StmtValues[(digit % Len(StmtValues)) + 1], i)]>> >>)]
GenDocs == Flatten([n \in 1..MaxStatements |-> GenDocsOf(n)])

\* A later document of Q1, and one without statements of item value.
DocQ1Later == Doc(1, << <<2, <<ItemStmt("normal", 3)>> >> >>)
DocQ1Bare == Doc(1, << <<2, <<GenStmt("normal", "string", 1)>> >> >>)

\* The scenarios the parse stage alone is run on: a page with one revision for
\* every generated document, and pages with several revisions.
ParseDumps ==
  [k \in 1..Len(GenDocs) |-> [a1 |-> PageLines(1, RevLines(11, 1, GenDocs[k]))]]
  \o <<
  [a1 |-> PageLines(1, RevLines(11, 1, DocQ1) \o RevLines(12, 2, DocQ1Later))],
  [a1 |-> PageLines(1, RevLines(11, 1, DocQ1) \o RevLines(12, 2, DocQ1Later)
                         \o RevLines(13, 3, DocQ1)),
   a2 |-> PageLines(2, RevLines(21, 2, DocQ2))],
  [a1 |-> PageLines(1, RevLines(11, 1, DocQ1Bare) \o RevLines(12, 2, DocQ1))],
  \* the page of Q3, which redirects to Q2, and after it the page of Q1
  [a1 |-> <<Title("Q", 3), Redirect("Q", 2)>> \o RevLines(31, 1, DocQ3) \o <<EndPage>>
            \o PageLines(1, RevLines(11, 2, DocQ1))],
  \* after the page of Q1 a revision of Q2 without id and timestamp and a
  \* revision of Q3 without format
  [a1 |-> PageLines(1, RevLines(11, 1, DocQ1))
            \o PageLines(2, <<Format("application/json"), Text(DocQ2), EndRevision>>)
            \o PageLines(3, <<RevId(31), Timestamp(3), Text(DocQ3), EndRevision>>)]
  >>

\* The scenarios: for each, the dump files and the lines of each.
Dumps == MainDumps \o ParseDumps

\* The numbers of worker processes the user may grant (main's first prompt).
CoreChoices == {1, 3}

\* The allow-lists of the filter files.
filtered_entities == {1, 2, 3}
filtered_relations == {2, 3}

\* The items and the file names of the model.
Items == {1, 2, 3}
\* A revision file is <dump>_Q<item>.json.bz2 or redirected_<dump>_Q<item>.json.bz2.
RevFileNames == {<<redirected, item>> : redirected \in BOOLEAN, item \in Items}

VARIABLES
  scenario,      \* which dump files were downloaded
  cores,         \* num_of_cores_granted
  runs,          \* how often main() was started
  phase,         \* where main() is: idle, parse, diff, agg, aggjoin, sort
  exit,          \* how the last invocation that ended did: none, ok, error, killed
  interrupted,   \* the output files that were being written when the process was killed
  parseMarkers,  \* revisions_extracted_dumps/<dump>.processed
  revFolders,    \* the folders revision_files/<dump>
  revFiles,      \* the lines of every revision file
  redirectLogs,  \* <cwd>/<dump>_redirected_items.txt.bz2
  redirectsFld,  \* the files of extraction_process_data/redirects
  parseTask,     \* process_dump_file(dump) in its worker process
  diffMarkers,   \* processed_revision_files/<dump>/<revision file>.processed
  opFiles,       \* triple_operations/<dump>/Q<item>.txt.bz2
  diffTask,      \* extract_triple_operations_for_dump_revisions_folder(folder)
  aggMarkers,    \* triple_operations/<dump>/Q<item>.txt.bz2.processed
  compiled,      \* compiled_triple_operations_filtered.txt.bz2
  redir_dict,    \* target_id_per_redirected_item
  q,             \* the manager's queue
  aggJob,        \* collect_subfolder_triple_operations_to_file(subfolder, q, ...)
  writerTask,    \* writer(q, output_file)
  dataset        \* datasets/Wikidata9M.txt.bz2

vars == <<scenario, cores, runs, phase, exit, interrupted, parseMarkers, revFolders, revFiles,
          redirectLogs, redirectsFld, parseTask, diffMarkers, opFiles, diffTask,
          aggMarkers, compiled, redir_dict, q, aggJob, writerTask, dataset>>

fsParse == <<parseMarkers, revFolders, revFiles, redirectLogs, redirectsFld>>
fsDiff == <<diffMarkers, opFiles>>
fsAgg == <<aggMarkers, compiled>>
memDiff == <<diffTask>>
memAgg == <<redir_dict, q, aggJob, writerTask>>
input == <<scenario, cores, interrupted>>

\* The dump files of the run.
DumpList == DOMAIN Dumps[scenario]
DumpLines(a) == Dumps[scenario][a]

\* How often main() is started at most.
MaxRuns == 2

\* ------------------------------------------------------------------------
\* ClaimNormalizer
\* ------------------------------------------------------------------------

\* The triples of the statements of one property that have rank `rank` and an
\* item as their value.
RankedStatements(item, proprty, claim_list, rank) ==
  LET taken(c) == /\ c.rank # "deprecated"
                  /\ c.snaktype = "value" /\ c.datavalue
                  /\ c.dvtype = "wikibase-entityid"
                  /\ c.etype = "item"
                  /\ c.rank = rank
      sel == SelectSeq(claim_list, taken)
  IN [i \in 1..Len(sel) |-> <<item, proprty, sel[i].numid>>]

\* get_truthy_claims_list: per property the preferred statements, or else the
\* normal ones.
get_truthy_claims_list(item_dict) ==
  LET perProperty(pc) ==
        LET preferred_statements == RankedStatements(item_dict.id, pc[1], pc[2], "preferred")
            normal_statements == RankedStatements(item_dict.id, pc[1], pc[2], "normal")
        IN IF preferred_statements # <<>> THEN preferred_statements ELSE normal_statements
  IN Flatten([i \in 1..Len(item_dict.claims) |-> perProperty(item_dict.claims[i])])

create_item_revision_dict(item_id, revision_id, timestamp, claim_triple_list) ==
  [item_id |-> item_id, revision |-> revision_id, timestamp |-> timestamp,
   claims |-> claim_triple_list]

\* ------------------------------------------------------------------------
\* SnapshotReader: process_dump_file and parse_xml_dump
\* ------------------------------------------------------------------------

\* The locals of parse_xml_dump before its first line.
ParseLocals ==
  [pos |-> 1, item_id |-> None, revision_id |-> None, timestamp |-> None,
   format |-> None, item_was_redirected |-> FALSE]

NoParseTask == [pc |-> "none"] @@ ParseLocals
PendingParseTask == [pc |-> "pending"] @@ ParseLocals

\* item_id and item_id.startswith("Q")
IsQ(item_id) == item_id # None /\ item_id[1][1] = "Q"

\* ParseLine without the reset of the locals at </revision> and </page>.
ParseLineKeeping(t, line) ==
  LET item_id == IF line.tag = "title" THEN Some(line.val) ELSE t.item_id
      redirects == line.tag = "redirect"
      \* None.startswith raises AttributeError
      raisesRedirect == redirects /\ item_id = None
      logsRedirect == redirects /\ IsQ(item_id)
      reads == /\ line.tag = "text"
               /\ t.format = Some("application/json") /\ IsQ(item_id)
               /\ line.val.kind # "empty"
      \* json.loads raises on text that is not JSON
      raisesJson == reads /\ line.val.kind = "malformed"
      saves == reads /\ ~raisesJson /\ line.val.hasType /\ line.val.hasId
      was_redirected == t.item_was_redirected \/ logsRedirect
  IN [raises |-> raisesRedirect \/ raisesJson,
      redirect |-> IF logsRedirect THEN Some(<<item_id[1][2], line.val[2]>>) ELSE None,
      save |-> IF saves
               THEN Some([redirected |-> was_redirected,
                          dict |-> create_item_revision_dict(
                                     item_id[1], t.revision_id, t.timestamp,
                                     get_truthy_claims_list(line.val))])
               ELSE None,
      locals |->
        [pos |-> t.pos + 1,
         item_id |-> item_id,
         revision_id |-> IF line.tag = "id" /\ ~logsRedirect THEN Some(line.val) ELSE t.revision_id,
         timestamp |-> IF line.tag = "timestamp" THEN Some(line.val) ELSE t.timestamp,
         format |-> IF line.tag = "format" THEN Some(line.val) ELSE t.format,
         item_was_redirected |-> was_redirected]]

\* What one line does to the locals of parse_xml_dump: the new locals, the
\* redirect it logs, the revision it saves, and whether it raises.
ParseLine(t, line) ==
  LET item_id == IF line.tag = "title" THEN Some(line.val) ELSE t.item_id
      redirects == line.tag = "redirect"
      \* None.startswith raises AttributeError
      raisesRedirect == redirects /\ item_id = None
      logsRedirect == redirects /\ IsQ(item_id)
      reads == /\ line.tag = "text"
               /\ t.format = Some("application/json") /\ IsQ(item_id)
               /\ line.val.kind # "empty"
      \* json.loads raises on text that is not JSON
      raisesJson == reads /\ line.val.kind = "malformed"
      saves == reads /\ ~raisesJson /\ line.val.hasType /\ line.val.hasId
      ends == line.tag \in {"endpage", "endrevision"}
      was_redirected == t.item_was_redirected \/ logsRedirect
  IN [raises |-> raisesRedirect \/ raisesJson,
      redirect |-> IF logsRedirect THEN Some(<<item_id[1][2], line.val[2]>>) ELSE None,
      save |-> IF saves
               THEN Some([redirected |-> was_redirected,
                          dict |-> create_item_revision_dict(
                                     item_id[1], t.revision_id, t.timestamp,
                                     get_truthy_claims_list(line.val))])
               ELSE None,
      locals |->
        IF ends THEN [ParseLocals EXCEPT !.pos = t.pos + 1]
        ELSE [pos |-> t.pos + 1,
              item_id |-> item_id,
              revision_id |-> IF line.tag = "id" /\ ~logsRedirect THEN Some(line.val) ELSE t.revision_id,
              timestamp |-> IF line.tag = "timestamp" THEN Some(line.val) ELSE t.timestamp,
              format |-> IF line.tag = "format" THEN Some(line.val) ELSE t.format,
              item_was_redirected |-> was_redirected]]

\* save_item_revision_to_json_file without the check of the claim list.
save_item_revision_always(files, dump_file_name, item_id, revision_dict, item_is_redirected) ==
  LET name == <<item_is_redirected, item_id[2]>>
  IN [files EXCEPT ![dump_file_name][name] = Append(files[dump_file_name][name], revision_dict)]

\* save_item_revision_to_json_file: the revision files after the call. Nothing
\* is stored when the claim list is empty and the file does not exist yet;
\* otherwise the revision is appended to the file.
save_item_revision_to_json_file(files, dump_file_name, item_id, revision_dict, item_is_redirected) ==
  LET name == <<item_is_redirected, item_id[2]>>
  IN IF files[dump_file_name][name] = <<>> /\ Len(revision_dict.claims) = 0
     THEN files
     ELSE [files EXCEPT ![dump_file_name][name] = Append(files[dump_file_name][name], revision_dict)]

\* create_log_entry_for_redirect_item: the log files in the working directory
\* after the call.
create_log_entry_for_redirect_item(logs, filename, pair) ==
  [logs EXCEPT ![filename] = Append(@, pair)]

\* The worker processes of the pool that are running a task.
Running(tasks) == Cardinality({a \in DOMAIN tasks : tasks[a].pc \notin {"none", "pending", "done", "failed"}})

\* Every task of the pool has ended; one of them raised.
Finished(tasks) == \A a \in DOMAIN tasks : tasks[a].pc \in {"none", "done", "failed"}
Failed(tasks) == \E a \in DOMAIN tasks : tasks[a].pc = "failed"

\* ProcessDumpFile without the check of the marker.
ProcessDumpFileAgain(a) ==
  /\ phase = "parse"
  /\ parseTask[a].pc = "pending"
  /\ Running(parseTask) < cores
  /\ parseTask' = [parseTask EXCEPT ![a].pc = "parse"]
  /\ UNCHANGED <<input, runs, phase, exit, fsParse, fsDiff, memDiff, fsAgg, memAgg, dataset>>

\* process_dump_file up to its check of the marker: a dump that has its marker
\* is skipped, any other is parsed.
ProcessDumpFile(a) ==
  /\ phase = "parse"
  /\ parseTask[a].pc = "pending"
  /\ Running(parseTask) < cores
  /\ parseTask' = [parseTask EXCEPT ![a].pc = IF a \in parseMarkers THEN "done" ELSE "parse"]
  /\ UNCHANGED <<input, runs, phase, exit, fsParse, fsDiff, memDiff, fsAgg, memAgg, dataset>>

\* One line of parse_xml_dump.
ParseXmlDumpLine(a) ==
  /\ phase = "parse"
  /\ parseTask[a].pc = "parse"
  /\ parseTask[a].pos <= Len(DumpLines(a))
  /\ LET t == parseTask[a]
         r == ParseLine(t, DumpLines(a)[t.pos])
     IN IF r.raises
        THEN /\ parseTask' = [parseTask EXCEPT ![a] = [pc |-> "failed"] @@ ParseLocals]
             /\ UNCHANGED fsParse
        ELSE /\ parseTask' = [parseTask EXCEPT ![a] = [pc |-> "parse"] @@ r.locals]
             /\ redirectLogs' = IF r.redirect = None THEN redirectLogs
                                ELSE create_log_entry_for_redirect_item(redirectLogs, a, r.redirect[1])
             /\ revFolders' = IF r.save = None THEN revFolders ELSE revFolders \cup {a}
             /\ revFiles' = IF r.save = None THEN revFiles
                            ELSE save_item_revision_to_json_file(
                                   revFiles, a, r.save[1].dict.item_id, r.save[1].dict, r.save[1].redirected)
             /\ UNCHANGED <<parseMarkers, redirectsFld>>
  /\ UNCHANGED <<input, runs, phase, exit, fsDiff, memDiff, fsAgg, memAgg, dataset>>

\* process_dump_file after parse_xml_dump returned: processed_marker.touch().
TouchDumpMarker(a) ==
  /\ phase = "parse"
  /\ parseTask[a].pc = "parse"
  /\ parseTask[a].pos > Len(DumpLines(a))
  /\ parseMarkers' = parseMarkers \cup {a}
  /\ parseTask' = [parseTask EXCEPT ![a] = [pc |-> "done"] @@ ParseLocals]
  /\ UNCHANGED <<input, runs, phase, exit, revFolders, revFiles, redirectLogs, redirectsFld,
                 fsDiff, memDiff, fsAgg, memAgg, dataset>>

\* ------------------------------------------------------------------------
\* SnapshotDiffer
\* ------------------------------------------------------------------------

\* extract_item_triple_operations: the lists it may return, one for every order
\* in which the set difference is iterated. The loop assigns operation_type
\* itself: "+" while it still is "ins", "-" from then on.
extract_item_triple_operations(new_claims_set, old_claims_set, rev_ts, operation_type) ==
  LET triple_operations == IF operation_type = "ins"
                           THEN new_claims_set \ old_claims_set
                           ELSE old_claims_set \ new_claims_set
  IN {[i \in 1..Cardinality(triple_operations) |->
         <<o[i][1], o[i][2], o[i][3],
           IF operation_type = "ins" /\ i = 1 THEN "+" ELSE "-",
           rev_ts>>] : o \in Orderings(triple_operations)}

RECURSIVE TripleOperationsFrom(_, _)
\* The loop of get_triple_operations_list over the lines of a revision file
\* from old_claims_set on: the results it may have. A claim whose subject is
\* not the item of its line ends the function without a value.
TripleOperationsFrom(lines, old_claims_set) ==
  IF lines = <<>> THEN {[none |-> FALSE, ops |-> <<>>]}
  ELSE LET revision_dict == Head(lines)
           numeric_item_id == revision_dict.item_id[2]
           new_claims_set == Range(revision_dict.claims)
       IN IF \E claim \in new_claims_set : claim[1] # numeric_item_id
          THEN {[none |-> TRUE, ops |-> <<>>]}
          ELSE {IF rest.none THEN rest
                ELSE [none |-> FALSE, ops |-> insert_operations \o delete_operations \o rest.ops] :
                  insert_operations \in extract_item_triple_operations(
                      new_claims_set, old_claims_set, revision_dict.timestamp, "ins"),
                  delete_operations \in extract_item_triple_operations(
                      new_claims_set, old_claims_set, revision_dict.timestamp, "del"),
                  rest \in TripleOperationsFrom(Tail(lines), new_claims_set)}

\* get_triple_operations_list without the check of the subject: the inserts
\* of the first revision, whatever its claims say.
get_triple_operations_unchecked(revision_file) ==
  {[none |-> FALSE, ops |-> insert_operations] :
     insert_operations \in extract_item_triple_operations(
         Range(revision_file[1].claims), {}, revision_file[1].timestamp, "ins")}

get_triple_operations_list(revision_file) == TripleOperationsFrom(revision_file, {})

NoDiffTask == [pc |-> "none", todo |-> {}, cur |-> 0, ops |-> <<>>]
NoOpFile == [exists |-> FALSE, lines |-> <<>>]

\* The revision files of a folder that are not redirected_ files, by item.
ItemRevisionFiles(a) == {item \in Items : revFiles[a][<<FALSE, item>>] # <<>>}

\* extract_triple_operations_for_dump_revisions_folder starts in a worker: it
\* lists the revision files of the folder.
ExtractFolder(a) ==
  /\ phase = "diff"
  /\ diffTask[a].pc = "pending"
  /\ Running(diffTask) < cores
  /\ diffTask' = [diffTask EXCEPT ![a] = [NoDiffTask EXCEPT !.pc = "loop", !.todo = ItemRevisionFiles(a)]]
  /\ UNCHANGED <<input, runs, phase, exit, fsParse, parseTask, fsDiff, fsAgg, memAgg, dataset>>

\* OpenOutputFile with the file opened to append ("at").
OpenOutputFileAppend(file) == [exists |-> TRUE, lines |-> file.lines]

\* The mode write_item_triple_operations_to_file opens its output file in:
\* "wt" leaves an empty file.
OpenOutputFile(file) == [exists |-> TRUE, lines |-> <<>>]

\* write_item_triple_operations_to_file for the next revision file of the
\* folder, up to opening the output file. A file that has its marker is
\* skipped. Iterating the missing result of get_triple_operations_list raises
\* TypeError with the output file open, and the loop over the folder ends.
WriteItemOpen(a) ==
  /\ phase = "diff"
  /\ diffTask[a].pc = "loop"
  /\ \E item \in diffTask[a].todo :
       IF <<a, item>> \in diffMarkers
       THEN /\ diffTask' = [diffTask EXCEPT ![a].todo = @ \ {item}]
            /\ UNCHANGED fsDiff
       ELSE \E r \in get_triple_operations_list(revFiles[a][<<FALSE, item>>]) :
              /\ opFiles' = [opFiles EXCEPT ![a][item] = OpenOutputFile(@)]
              /\ diffTask' = [diffTask EXCEPT ![a] =
                                IF r.none THEN [@ EXCEPT !.pc = "failed", !.todo = @ \ {item}]
                                ELSE [pc |-> "write", todo |-> @.todo \ {item},
                                      cur |-> item, ops |-> r.ops]]
              /\ UNCHANGED diffMarkers
  /\ UNCHANGED <<input, runs, phase, exit, fsParse, parseTask, fsAgg, memAgg, dataset>>

\* One f.write(line) of write_item_triple_operations_to_file.
WriteItemLine(a) ==
  /\ phase = "diff"
  /\ diffTask[a].pc = "write"
  /\ diffTask[a].ops # <<>>
  /\ opFiles' = [opFiles EXCEPT ![a][diffTask[a].cur].lines = Append(@, Head(diffTask[a].ops))]
  /\ diffTask' = [diffTask EXCEPT ![a].ops = Tail(@)]
  /\ UNCHANGED <<input, runs, phase, exit, fsParse, parseTask, diffMarkers, fsAgg, memAgg, dataset>>

\* TouchRevMarker with the marker touched while lines are still to be written.
TouchRevMarkerEarly(a) ==
  /\ phase = "diff"
  /\ diffTask[a].pc = "write"
  /\ diffMarkers' = diffMarkers \cup {<<a, diffTask[a].cur>>}
  /\ diffTask' = [diffTask EXCEPT ![a].pc = "loop", ![a].cur = 0, ![a].ops = <<>>]
  /\ UNCHANGED <<input, runs, phase, exit, fsParse, parseTask, opFiles, fsAgg, memAgg, dataset>>

\* The output file is closed: processed_rev_marker.touch().
TouchRevMarker(a) ==
  /\ phase = "diff"
  /\ diffTask[a].pc = "write"
  /\ diffTask[a].ops = <<>>
  /\ diffMarkers' = diffMarkers \cup {<<a, diffTask[a].cur>>}
  /\ diffTask' = [diffTask EXCEPT ![a].pc = "loop", ![a].cur = 0]
  /\ UNCHANGED <<input, runs, phase, exit, fsParse, parseTask, opFiles, fsAgg, memAgg, dataset>>

\* The loop over the revision files of the folder is through.
ExtractFolderReturn(a) ==
  /\ phase = "diff"
  /\ diffTask[a].pc = "loop"
  /\ diffTask[a].todo = {}
  /\ diffTask' = [diffTask EXCEPT ![a] = [NoDiffTask EXCEPT !.pc = "done"]]
  /\ UNCHANGED <<input, runs, phase, exit, fsParse, parseTask, fsDiff, fsAgg, memAgg, dataset>>

\* ------------------------------------------------------------------------
\* FanInAggregator: compile_triple_operations, its jobs and its writer
\* ------------------------------------------------------------------------

\* One way of reading the files of the redirects folder, the later line of a
\* source replacing the earlier one.
RECURSIVE RedirectsOf(_, _)
RedirectsOf(lines, dict) ==
  IF lines = <<>> THEN dict
  ELSE RedirectsOf(Tail(lines),
         [x \in DOMAIN dict \cup {Head(lines)[1]} |->
            IF x = Head(lines)[1] THEN Head(lines)[2] ELSE dict[x]])

\* get_item_redirects_dict: the dicts it may return, one for every order in
\* which the files of extraction_process_data/redirects are listed.
get_item_redirects_dict ==
  {RedirectsOf(Flatten([i \in 1..Cardinality(redirectsFld) |-> o[i]]), <<>>) :
     o \in Orderings(redirectsFld)}

\* The lines collect_subfolder_triple_operations_to_file gathers from one file
\* of triple operations: it reads the five fields of a line as subject, object,
\* predicate, operation and timestamp, resolves the object and filters.
RECURSIVE OutputLines(_, _)
OutputLines(lines, dict) ==
  IF lines = <<>> THEN <<>>
  ELSE LET line == Head(lines)
           subject_ == line[1]
           object_ == IF DOMAIN dict # {} /\ line[2] \in DOMAIN dict THEN dict[line[2]] ELSE line[2]
           predicate_ == line[3]
           dropped == \/ ~(/\ subject_ \in filtered_entities
                           /\ object_ \in filtered_entities
                           /\ predicate_ \in filtered_relations)
                      \/ subject_ = object_
       IN (IF dropped THEN <<>> ELSE << <<subject_, object_, predicate_, line[4], line[5]>> >>)
          \o OutputLines(Tail(lines), dict)

NoAggJob == [pc |-> "none", todo |-> {}, cur |-> 0]
NoWriter == [pc |-> "none", m |-> <<>>]
Batch(lines) == [kill |-> FALSE, lines |-> lines]
KillMessage == [kill |-> TRUE, lines |-> <<>>]

\* The subfolders of triple_operations: one for every dump with an output file.
TripleOpsSubfolders == {a \in Archives : \E item \in Items : opFiles[a][item].exists}

\* The files of a subfolder whose name starts with "Q": the files of triple
\* operations and, as the marker folder is the subfolder itself, the markers.
SubfolderTripleOps(a) ==
  {<<"ops", item>> : item \in {i \in Items : opFiles[a][i].exists}}
    \cup {<<"processed", item>> : item \in {i \in Items : <<a, i>> \in aggMarkers}}

\* compile_triple_operations up to the submission of its jobs: the writer is
\* submitted first, the redirects are loaded, one job per subfolder follows.
CompileStart ==
  /\ phase = "diff"
  /\ Finished(diffTask)
  /\ ~Failed(diffTask)
  /\ phase' = "agg"
  /\ diffTask' = [a \in Archives |-> NoDiffTask]
  /\ writerTask' = [NoWriter EXCEPT !.pc = "pending"]
  /\ q' = <<>>
  /\ \E d \in get_item_redirects_dict : redir_dict' = d
  /\ aggJob' = [a \in Archives |->
                  IF a \in TripleOpsSubfolders THEN [NoAggJob EXCEPT !.pc = "pending"] ELSE NoAggJob]
  /\ UNCHANGED <<input, runs, exit, fsParse, parseTask, fsDiff, fsAgg, dataset>>

\* The first worker of the pool takes the writer, which opens the output file
\* to append and waits at q.get().
WriterOpen ==
  /\ phase \in {"agg", "aggjoin"}
  /\ writerTask.pc = "pending"
  /\ writerTask' = [writerTask EXCEPT !.pc = "get"]
  /\ UNCHANGED <<input, runs, phase, exit, fsParse, parseTask, fsDiff, memDiff, fsAgg,
                 redir_dict, q, aggJob, dataset>>

\* m = q.get(): the sentinel ends the writer, any other message is to be written.
WriterGet ==
  /\ writerTask.pc = "get"
  /\ q # <<>>
  /\ q' = Tail(q)
  /\ writerTask' = IF Head(q).kill THEN [NoWriter EXCEPT !.pc = "done"]
                   ELSE [pc |-> "write", m |-> Head(q).lines]
  /\ UNCHANGED <<input, runs, phase, exit, fsParse, parseTask, fsDiff, memDiff, fsAgg,
                 redir_dict, aggJob, dataset>>

\* output.writelines(m), one line at a time, and output.flush() after the last.
WriterWrite ==
  /\ writerTask.pc = "write"
  /\ compiled' = Append(compiled, Head(writerTask.m))
  /\ writerTask' = IF Len(writerTask.m) = 1 THEN [NoWriter EXCEPT !.pc = "get"]
                   ELSE [writerTask EXCEPT !.m = Tail(@)]
  /\ UNCHANGED <<input, runs, phase, exit, fsParse, parseTask, fsDiff, memDiff, aggMarkers,
                 redir_dict, q, aggJob, dataset>>

\* A worker that is free takes the job of a subfolder, which lists its files.
CollectSubfolder(a) ==
  /\ phase = "agg"
  /\ aggJob[a].pc = "pending"
  /\ writerTask.pc # "pending"
  /\ Running(aggJob) + 1 < cores
  /\ aggJob' = [aggJob EXCEPT ![a] = [NoAggJob EXCEPT !.pc = "loop", !.todo = SubfolderTripleOps(a)]]
  /\ UNCHANGED <<input, runs, phase, exit, fsParse, parseTask, fsDiff, memDiff, fsAgg,
                 redir_dict, q, writerTask, dataset>>

\* PutOutputLines with the job writing to the output file itself.
PutOutputLinesDirect(a, output_lines) ==
  /\ compiled' = compiled \o output_lines
  /\ UNCHANGED q

\* What a job does with the lines gathered from one file: q.put(output_lines).
PutOutputLines(a, output_lines) ==
  /\ q' = Append(q, Batch(output_lines))
  /\ UNCHANGED compiled

\* The next file of the subfolder. A file that has its marker is skipped; a
\* marker, which is an empty file, makes bz2 raise EOFError; the lines gathered
\* from any other file are put on the queue, unless there are none.
CollectFile(a) ==
  /\ phase = "agg"
  /\ aggJob[a].pc = "loop"
  /\ \E f \in aggJob[a].todo :
       IF f[1] = "processed"
       THEN /\ aggJob' = [aggJob EXCEPT ![a].pc = "failed", ![a].todo = @ \ {f}]
            /\ UNCHANGED <<q, compiled>>
       ELSE IF <<a, f[2]>> \in aggMarkers
       THEN /\ aggJob' = [aggJob EXCEPT ![a].todo = @ \ {f}]
            /\ UNCHANGED <<q, compiled>>
       ELSE LET output_lines == OutputLines(opFiles[a][f[2]].lines, redir_dict)
            IN IF output_lines # <<>>
               THEN /\ PutOutputLines(a, output_lines)
                    /\ aggJob' = [aggJob EXCEPT ![a] = [pc |-> "touch", todo |-> @.todo \ {f}, cur |-> f[2]]]
               ELSE /\ aggJob' = [aggJob EXCEPT ![a].todo = @ \ {f}]
                    /\ UNCHANGED <<q, compiled>>
  /\ UNCHANGED <<input, runs, phase, exit, fsParse, parseTask, fsDiff, memDiff, aggMarkers,
                 redir_dict, writerTask, dataset>>

\* After q.put: processed_triple_ops_marker.touch().
TouchTripleOpsMarker(a) ==
  /\ phase = "agg"
  /\ aggJob[a].pc = "touch"
  /\ aggMarkers' = aggMarkers \cup {<<a, aggJob[a].cur>>}
  /\ aggJob' = [aggJob EXCEPT ![a].pc = "loop", ![a].cur = 0]
  /\ UNCHANGED <<input, runs, phase, exit, fsParse, parseTask, fsDiff, memDiff, compiled,
                 redir_dict, q, writerTask, dataset>>

\* The loop over the files of the subfolder is through: the job returns.
CollectReturn(a) ==
  /\ phase = "agg"
  /\ aggJob[a].pc = "loop"
  /\ aggJob[a].todo = {}
  /\ aggJob' = [aggJob EXCEPT ![a] = [NoAggJob EXCEPT !.pc = "done"]]
  /\ UNCHANGED <<input, runs, phase, exit, fsParse, parseTask, fsDiff, memDiff, fsAgg,
                 redir_dict, q, writerTask, dataset>>

\* KillWriter without the wait for the jobs.
KillWriterEarly ==
  /\ phase = "agg"
  /\ \E a \in Archives : aggJob[a].pc # "none"
  /\ \A i \in 1..Len(q) : ~q[i].kill
  /\ q' = Append(q, KillMessage)
  /\ UNCHANGED <<input, runs, phase, exit, fsParse, parseTask, fsDiff, memDiff, fsAgg,
                 redir_dict, aggJob, writerTask, dataset>>

\* Every job.get() has returned: q.put('kill'), pool.close(), pool.join().
KillWriter ==
  /\ phase = "agg"
  /\ \A a \in Archives : aggJob[a].pc \in {"none", "done"}
  /\ q' = Append(q, KillMessage)
  /\ phase' = "aggjoin"
  /\ UNCHANGED <<input, runs, exit, fsParse, parseTask, fsDiff, memDiff, fsAgg,
                 redir_dict, aggJob, writerTask, dataset>>

\* ------------------------------------------------------------------------
\* Compactor: sort_filtered_triple_operations and remove_duplicates
\* ------------------------------------------------------------------------

\* The key operator.itemgetter(4, 0, 1, 2, 3) gives a line, as numbers that
\* order like its strings: a timestamp that is None prints as "None" and
\* follows every date, "+" precedes "-".
SortKey(op) ==
  <<IF op[5] = None THEN 1 ELSE 0, IF op[5] = None THEN 0 ELSE op[5][1],
    op[1], op[2], op[3], IF op[4] = "+" THEN 0 ELSE 1>>

RECURSIVE KeyLess(_, _)
\* The lexicographic order on keys.
KeyLess(k1, k2) ==
  /\ k1 # <<>>
  /\ \/ Head(k1) < Head(k2)
     \/ Head(k1) = Head(k2) /\ KeyLess(Tail(k1), Tail(k2))

RECURSIVE InsertSorted(_, _)
\* `op` put into a sorted list after the lines that do not follow it.
InsertSorted(op, ops) ==
  IF ops = <<>> THEN <<op>>
  ELSE IF KeyLess(SortKey(op), SortKey(Head(ops))) THEN <<op>> \o ops
  ELSE <<Head(ops)>> \o InsertSorted(op, Tail(ops))

RECURSIVE SortedFrom(_, _)
SortedFrom(ops, acc) ==
  IF ops = <<>> THEN acc ELSE SortedFrom(Tail(ops), InsertSorted(Head(ops), acc))

\* sorted(triple_operations, key=operator.itemgetter(4, 0, 1, 2, 3))
sorted(triple_operations) == SortedFrom(triple_operations, <<>>)

\* IsUndonePair with no pair ever found.
NeverUndonePair(curr, next) == FALSE

\* The test of line 757: two operations on one triple at one timestamp that
\* differ in their type.
IsUndonePair(curr, next) ==
  /\ <<curr[1], curr[2], curr[3]>> = <<next[1], next[2], next[3]>>
  /\ curr[5] = next[5]
  /\ curr[4] # next[4]

\* RepeatsState with no repetition ever found.
NeverRepeatsState(triple_state_dict, curr_triple, curr_op_type) == FALSE

\* The test of line 768: the triple is in triple_state_dict with this type.
RepeatsState(triple_state_dict, curr_triple, curr_op_type) ==
  triple_state_dict[curr_triple] = curr_op_type

\* triple_state_dict[curr_triple] = curr_op_type
SetState(triple_state_dict, curr_triple, curr_op_type) ==
  [x \in DOMAIN triple_state_dict \cup {curr_triple} |->
     IF x = curr_triple THEN curr_op_type ELSE triple_state_dict[x]]

\* remove_duplicates before its loop: no operation kept, no warning printed.
\* `kept` are the indices of the operations kept, `heads` the index and the
\* triple_state_dict of every pass through the head of the loop.
NoneRemoved == [ops |-> <<>>, warned |-> <<>>, kept |-> <<>>, heads |-> <<>>]

RECURSIVE RemoveDuplicatesFrom(_, _, _, _)
\* The loop of remove_duplicates from `index` (counted from 1) on: its list of
\* consistent operations and the triples it printed a warning for.
RemoveDuplicatesFrom(triple_operations, index, res, triple_state_dict) ==
  LET here == [res EXCEPT !.heads = Append(res.heads, [index |-> index, dict |-> triple_state_dict])]
  IN IF ~(index < Len(triple_operations)) THEN here
     ELSE LET curr == triple_operations[index]
              next == triple_operations[index + 1]
              curr_triple == <<curr[1], curr[2], curr[3]>>
              taken == [here EXCEPT !.ops = Append(here.ops, curr),
                                    !.kept = Append(here.kept, index)]
          IN IF IsUndonePair(curr, next)
             THEN RemoveDuplicatesFrom(triple_operations, index + 2, here, triple_state_dict)
             ELSE IF curr_triple \notin DOMAIN triple_state_dict
             THEN RemoveDuplicatesFrom(triple_operations, index + 1,
                    [taken EXCEPT !.warned = IF curr[4] = "-" THEN Append(here.warned, curr_triple)
                                             ELSE here.warned],
                    SetState(triple_state_dict, curr_triple, curr[4]))
             ELSE IF RepeatsState(triple_state_dict, curr_triple, curr[4])
             THEN RemoveDuplicatesFrom(triple_operations, index + 1, here, triple_state_dict)
             ELSE RemoveDuplicatesFrom(triple_operations, index + 1, taken,
                    SetState(triple_state_dict, curr_triple, curr[4]))

remove_duplicates(triple_operations) ==
  RemoveDuplicatesFrom(triple_operations, 1, NoneRemoved, <<>>).ops

\* sort_filtered_triple_operations up to opening the dataset file to write.
SortOpen ==
  /\ phase = "sort"
  /\ phase' = "sortwrite"
  /\ dataset' = [exists |-> TRUE, lines |-> <<>>]
  /\ UNCHANGED <<input, runs, exit, fsParse, parseTask, fsDiff, memDiff, fsAgg, memAgg>>

\* The sorted operations without duplicates are written and the file is
\* closed: main() returns.
SortWrite ==
  /\ phase = "sortwrite"
  /\ dataset' = [exists |-> TRUE, lines |-> remove_duplicates(sorted(compiled))]
  /\ phase' = "idle"
  /\ exit' = "ok"
  /\ UNCHANGED <<input, runs, fsParse, parseTask, fsDiff, memDiff, fsAgg, memAgg>>

\* ------------------------------------------------------------------------
\* main
\* ------------------------------------------------------------------------

NoMemory ==
  /\ parseTask' = [a \in Archives |-> NoParseTask]
  /\ diffTask' = [a \in Archives |-> NoDiffTask]
  /\ aggJob' = [a \in Archives |-> NoAggJob]
  /\ writerTask' = NoWriter
  /\ q' = <<>>
  /\ redir_dict' = <<>>

\* main() is started: it submits process_dump_file for every dump file.
MainStart ==
  /\ phase = "idle"
  /\ runs < MaxRuns
  /\ runs' = runs + 1
  /\ phase' = "parse"
  /\ parseTask' = [a \in Archives |-> IF a \in DumpList THEN PendingParseTask ELSE NoParseTask]
  /\ UNCHANGED <<input, exit, fsParse, fsDiff, memDiff, fsAgg, memAgg, dataset>>

\* Every process_dump_file has returned: the second pool gets one task for
\* every folder of revision files.
ExtractStart ==
  /\ phase = "parse"
  /\ Finished(parseTask)
  /\ ~Failed(parseTask)
  /\ phase' = "diff"
  /\ parseTask' = [a \in Archives |-> NoParseTask]
  /\ diffTask' = [a \in Archives |->
                    IF a \in revFolders THEN [NoDiffTask EXCEPT !.pc = "pending"] ELSE NoDiffTask]
  /\ UNCHANGED <<input, runs, exit, fsParse, fsDiff, fsAgg, memAgg, dataset>>

\* A task of a ProcessPoolExecutor raised: the pool runs the tasks it has,
\* then main() ends with the exception.
PoolRaise ==
  /\ \/ phase = "parse" /\ Finished(parseTask) /\ Failed(parseTask)
     \/ phase = "diff" /\ Finished(diffTask) /\ Failed(diffTask)
  /\ phase' = "idle"
  /\ exit' = "error"
  /\ NoMemory
  /\ UNCHANGED <<input, runs, fsParse, fsDiff, fsAgg, dataset>>

\* job.get() raises the exception of a job: main() ends before q.put('kill'),
\* and the processes of the pool end with it wherever they are.
JobRaise ==
  /\ phase = "agg"
  /\ \E a \in Archives : aggJob[a].pc = "failed"
  /\ phase' = "idle"
  /\ exit' = "error"
  /\ NoMemory
  /\ UNCHANGED <<input, runs, fsParse, fsDiff, fsAgg, dataset>>

\* CompileReturn without the wait for the writer.
CompileReturnEarly ==
  /\ phase = "aggjoin"
  /\ phase' = "sort"
  /\ writerTask' = NoWriter
  /\ redir_dict' = <<>>
  /\ aggJob' = [a \in Archives |-> NoAggJob]
  /\ UNCHANGED <<input, runs, exit, fsParse, parseTask, fsDiff, memDiff, fsAgg, q, dataset>>

\* pool.join() returns once the writer has ended.
CompileReturn ==
  /\ phase = "aggjoin"
  /\ writerTask.pc = "done"
  /\ phase' = "sort"
  /\ writerTask' = NoWriter
  /\ redir_dict' = <<>>
  /\ aggJob' = [a \in Archives |-> NoAggJob]
  /\ UNCHANGED <<input, runs, exit, fsParse, parseTask, fsDiff, memDiff, fsAgg, q, dataset>>

\* The process is killed: what is in memory is lost, the files stay.
Kill ==
  /\ phase # "idle"
  /\ phase' = "idle"
  /\ exit' = "killed"
  /\ interrupted' = interrupted \cup
       {<<a, diffTask[a].cur>> : a \in {x \in Archives : /\ diffTask[x].pc = "write"
                                                          /\ diffTask[x].ops # <<>>
                                                          /\ opFiles[x][diffTask[x].cur].lines # <<>>}}
  /\ NoMemory
  /\ UNCHANGED <<scenario, cores, runs, fsParse, fsDiff, fsAgg, dataset>>

Init ==
  /\ scenario \in 1..Len(MainDumps)
  /\ cores \in CoreChoices
  /\ runs = 0
  /\ phase = "idle"
  /\ exit = "none"
  /\ interrupted = {}
  /\ parseMarkers = {}
  /\ revFolders = {}
  /\ revFiles = [a \in Archives |-> [n \in RevFileNames |-> <<>>]]
  /\ redirectLogs = [a \in Archives |-> <<>>]
  /\ redirectsFld = {}
  /\ parseTask = [a \in Archives |-> NoParseTask]
  /\ diffMarkers = {}
  /\ opFiles = [a \in Archives |-> [item \in Items |-> NoOpFile]]
  /\ diffTask = [a \in Archives |-> NoDiffTask]
  /\ aggMarkers = {}
  /\ compiled = <<>>
  /\ redir_dict = <<>>
  /\ q = <<>>
  /\ aggJob = [a \in Archives |-> NoAggJob]
  /\ writerTask = NoWriter
  /\ dataset = [exists |-> FALSE, lines |-> <<>>]

Next ==
  \/ MainStart
  \/ \E a \in Archives : ProcessDumpFile(a)
  \/ \E a \in Archives : ParseXmlDumpLine(a)
  \/ \E a \in Archives : TouchDumpMarker(a)
  \/ ExtractStart
  \/ \E a \in Archives : ExtractFolder(a)
  \/ \E a \in Archives : WriteItemOpen(a)
  \/ \E a \in Archives : WriteItemLine(a)
  \/ \E a \in Archives : TouchRevMarker(a)
  \/ \E a \in Archives : ExtractFolderReturn(a)
  \/ PoolRaise
  \/ CompileStart
  \/ WriterOpen
  \/ WriterGet
  \/ WriterWrite
  \/ \E a \in Archives : CollectSubfolder(a)
  \/ \E a \in Archives : CollectFile(a)
  \/ \E a \in Archives : TouchTripleOpsMarker(a)
  \/ \E a \in Archives : CollectReturn(a)
  \/ KillWriter
  \/ JobRaise
  \/ CompileReturn
  \/ SortOpen
  \/ SortWrite
  \/ Kill

Spec == Init /\ [][Next]_vars

\* ------------------------------------------------------------------------
\* The Compactor alone, over every short log
\* ------------------------------------------------------------------------

\* The longest log of compiled triple operations.
MaxLogLen == 3

\* The lines a log is made of: two triples, both types, two timestamps.
LogLines ==
  {<<t[1], t[2], t[3], type, Some(ts)>> : t \in {<<1, 2, 3>>, <<2, 2, 3>>}, type \in {"+", "-"}, ts \in 1..2}
Logs == UNION {[1..n -> LogLines] : n \in 0..MaxLogLen}

\* No file but the compiled one, no process at work.
NothingButCompiled ==
  /\ scenario = 1
  /\ cores = 1
  /\ exit = "none"
  /\ interrupted = {}
  /\ parseMarkers = {}
  /\ revFolders = {}
  /\ revFiles = [a \in Archives |-> [n \in RevFileNames |-> <<>>]]
  /\ redirectLogs = [a \in Archives |-> <<>>]
  /\ redirectsFld = {}
  /\ parseTask = [a \in Archives |-> NoParseTask]
  /\ diffMarkers = {}
  /\ opFiles = [a \in Archives |-> [item \in Items |-> NoOpFile]]
  /\ diffTask = [a \in Archives |-> NoDiffTask]
  /\ aggMarkers = {}
  /\ redir_dict = <<>>
  /\ q = <<>>
  /\ aggJob = [a \in Archives |-> NoAggJob]
  /\ writerTask = NoWriter
  /\ dataset = [exists |-> FALSE, lines |-> <<>>]

\* main() is about to call sort_filtered_triple_operations on some log.
CompactInit ==
  /\ NothingButCompiled
  /\ runs = 1
  /\ phase = "sort"
  /\ compiled \in Logs

\* sort_filtered_triple_operations is called once more, on the lines it wrote.
SortAgain ==
  /\ phase = "idle"
  /\ exit = "ok"
  /\ runs < MaxRuns
  /\ runs' = runs + 1
  /\ compiled' = dataset.lines
  /\ phase' = "sort"
  /\ UNCHANGED <<input, exit, fsParse, parseTask, fsDiff, memDiff, aggMarkers, memAgg, dataset>>

CompactNext == SortOpen \/ SortWrite \/ SortAgain

CompactSpec == CompactInit /\ [][CompactNext]_vars

\* ------------------------------------------------------------------------
\* The FanInAggregator alone, over small folders of operations and redirects
\* ------------------------------------------------------------------------

\* The most lines a file of triple operations has.
MaxOpLines == 2

\* The lines the differ may have written, "subject predicate object type ts":
\* a relation that is a key of a redirect file, an object that is one, a
\* relation outside the allow-list and an object outside it.
AggLines ==
  {<<1, 3, 2, "+", Some(1)>>, <<1, 2, 3, "+", Some(1)>>,
   <<1, 1, 2, "+", Some(2)>>, <<1, 2, 4, "+", Some(2)>>}

\* The files extraction_process_data/redirects may hold, "source target" a line.
RedirectFiles == {<< <<3, 2>> >>, << <<4, 3>>, <<3, 1>> >>}

\* The subfolders of triple_operations: up to MaxOpLines lines for Q1 of the
\* one dump, at most one line for Q2 of the other.
OpFolders ==
  {[a \in Archives |-> [item \in Items |->
      IF a = "a1" /\ item = 1 THEN [exists |-> TRUE, lines |-> first]
      ELSE IF a = "a2" /\ item = 2 /\ second # <<>> THEN [exists |-> TRUE, lines |-> second]
      ELSE NoOpFile]] :
     first \in UNION {[1..n -> AggLines] : n \in 1..MaxOpLines},
     second \in UNION {[1..n -> AggLines] : n \in 0..1}}

\* main() is about to call compile_triple_operations, for the first time.
AggInit ==
  /\ scenario = 1
  /\ cores \in CoreChoices
  /\ runs = 1
  /\ phase = "diff"
  /\ exit = "none"
  /\ interrupted = {}
  /\ parseMarkers = {}
  /\ revFolders = {}
  /\ revFiles = [a \in Archives |-> [n \in RevFileNames |-> <<>>]]
  /\ redirectLogs = [a \in Archives |-> <<>>]
  /\ redirectsFld \in SUBSET RedirectFiles
  /\ parseTask = [a \in Archives |-> NoParseTask]
  /\ diffMarkers = {}
  /\ opFiles \in OpFolders
  /\ diffTask = [a \in Archives |-> NoDiffTask]
  /\ aggMarkers = {}
  /\ compiled = <<>>
  /\ redir_dict = <<>>
  /\ q = <<>>
  /\ aggJob = [a \in Archives |-> NoAggJob]
  /\ writerTask = NoWriter
  /\ dataset = [exists |-> FALSE, lines |-> <<>>]

AggNext ==
  \/ CompileStart
  \/ WriterOpen
  \/ WriterGet
  \/ WriterWrite
  \/ \E a \in Archives : CollectSubfolder(a)
  \/ \E a \in Archives : CollectFile(a)
  \/ \E a \in Archives : TouchTripleOpsMarker(a)
  \/ \E a \in Archives : CollectReturn(a)
  \/ KillWriter
  \/ CompileReturn

AggSpec == AggInit /\ [][AggNext]_vars

\* The aggregation with every process going on whenever it can: a step that
\* is possible is taken in the end.
AggLiveSpec == AggSpec /\ WF_vars(AggNext)

\* ------------------------------------------------------------------------
\* The SnapshotDiffer alone, over small folders of revision files
\* ------------------------------------------------------------------------

\* The most revisions a revision file has.
MaxSnapshots == 2

\* The lines a revision file of Q<item> may have: claims of the item, and
\* claims whose subject is another item.
SnapshotLines(item) ==
  {create_item_revision_dict(<<"Q", item>>, Some(10 * item + n), Some(n), claims) :
     n \in 1..MaxSnapshots,
     claims \in {<< <<item, 2, 3>> >>, << <<item, 2, 3>>, <<item, 3, 2>> >>, << <<item + 1, 2, 3>> >>}}

\* The folders of revision files: up to MaxSnapshots lines for Q1 of the one
\* dump, at most one line for Q2 of the other.
RevisionFolders ==
  {[a \in Archives |-> [name \in RevFileNames |->
      IF a = "a1" /\ name = <<FALSE, 1>> THEN first
      ELSE IF a = "a2" /\ name = <<FALSE, 2>> THEN second
      ELSE <<>>]] :
     first \in UNION {[1..n -> SnapshotLines(1)] : n \in 1..MaxSnapshots},
     second \in UNION {[1..n -> SnapshotLines(2)] : n \in 0..1}}

\* The first pool of main() has run every process_dump_file to its end, one
\* of them possibly to an exception.
DiffInit ==
  /\ scenario = 1
  /\ cores \in CoreChoices
  /\ runs = 1
  /\ phase = "parse"
  /\ exit = "none"
  /\ interrupted = {}
  /\ parseMarkers = {}
  /\ revFiles \in RevisionFolders
  /\ revFolders = {a \in Archives : \E name \in RevFileNames : revFiles[a][name] # <<>>}
  /\ redirectLogs = [a \in Archives |-> <<>>]
  /\ redirectsFld = {}
  /\ parseTask \in {[a \in Archives |-> [pc |-> IF a \in failed THEN "failed" ELSE "done"] @@ ParseLocals] :
                      failed \in {{}, {"a2"}}}
  /\ diffMarkers = {}
  /\ opFiles = [a \in Archives |-> [item \in Items |-> NoOpFile]]
  /\ diffTask = [a \in Archives |-> NoDiffTask]
  /\ aggMarkers = {}
  /\ compiled = <<>>
  /\ redir_dict = <<>>
  /\ q = <<>>
  /\ aggJob = [a \in Archives |-> NoAggJob]
  /\ writerTask = NoWriter
  /\ dataset = [exists |-> FALSE, lines |-> <<>>]

\* main() from the end of its first pool to the end of its second.
DiffNext ==
  \/ ExtractStart
  \/ \E a \in Archives : ExtractFolder(a)
  \/ \E a \in Archives : WriteItemOpen(a)
  \/ \E a \in Archives : WriteItemLine(a)
  \/ \E a \in Archives : TouchRevMarker(a)
  \/ \E a \in Archives : ExtractFolderReturn(a)
  \/ PoolRaise

DiffSpec == DiffInit /\ [][DiffNext]_vars

\* ------------------------------------------------------------------------
\* The parse stage alone, over documents of every rank and value
\* ------------------------------------------------------------------------

\* main() has not been started; the dump files are those of a parse scenario.
ParseInit ==
  /\ scenario \in (Len(MainDumps) + 1)..Len(Dumps)
  /\ cores \in CoreChoices
  /\ runs = 0
  /\ phase = "idle"
  /\ exit = "none"
  /\ interrupted = {}
  /\ parseMarkers = {}
  /\ revFolders = {}
  /\ revFiles = [a \in Archives |-> [n \in RevFileNames |-> <<>>]]
  /\ redirectLogs = [a \in Archives |-> <<>>]
  /\ redirectsFld = {}
  /\ parseTask = [a \in Archives |-> NoParseTask]
  /\ diffMarkers = {}
  /\ opFiles = [a \in Archives |-> [item \in Items |-> NoOpFile]]
  /\ diffTask = [a \in Archives |-> NoDiffTask]
  /\ aggMarkers = {}
  /\ compiled = <<>>
  /\ redir_dict = <<>>
  /\ q = <<>>
  /\ aggJob = [a \in Archives |-> NoAggJob]
  /\ writerTask = NoWriter
  /\ dataset = [exists |-> FALSE, lines |-> <<>>]

\* main() up to the end of its first pool; it may be killed and started again.
ParseNext ==
  \/ MainStart
  \/ \E a \in Archives : ProcessDumpFile(a)
  \/ \E a \in Archives : ParseXmlDumpLine(a)
  \/ \E a \in Archives : TouchDumpMarker(a)
  \/ ExtractStart
  \/ Kill

ParseSpec == ParseInit /\ [][ParseNext]_vars

\* ------------------------------------------------------------------------
\* What the properties speak of
\* ------------------------------------------------------------------------

\* parse_xml_dump run over `lines` with nothing else going on, started with no
\* revision files: whether it raises, and the revision files it leaves.
ParseFrom(a, lines) ==
  LET after[i \in 0..Len(lines)] ==
        IF i = 0
        THEN [raises |-> FALSE, locals |-> ParseLocals,
              files |-> [x \in Archives |-> [n \in RevFileNames |-> <<>>]]]
        ELSE LET before == after[i - 1]
                 r == ParseLine(before.locals, lines[i])
             IN IF before.raises \/ r.raises THEN [before EXCEPT !.raises = TRUE]
                ELSE [raises |-> FALSE, locals |-> r.locals,
                      files |-> IF r.save = None THEN before.files
                                ELSE save_item_revision_to_json_file(
                                       before.files, a, r.save[1].dict.item_id,
                                       r.save[1].dict, r.save[1].redirected)]
  IN after[Len(lines)]

\* One run of parse_xml_dump over every dump of every scenario: whether it
\* raises, and each revision file of the dump with the revisions it holds.
CleanParses ==
  UNION {{LET r == ParseFrom(a, Dumps[s][a])
          IN <<s, a, r.raises, {<<n, r.files[a][n]>> : n \in RevFileNames}>> :
            a \in DOMAIN Dumps[s]} : s \in 1..Len(Dumps)}
CleanParse(a) ==
  LET c == CHOOSE c \in CleanParses : c[1] = scenario /\ c[2] = a
  IN [raises |-> c[3], files |-> c[4]]

\* The lines of a file of triple operations are one complete result of
\* get_triple_operations_list for the revision file of the item.
CompleteOperations(a, item, lines) ==
  [none |-> FALSE, ops |-> lines] \in get_triple_operations_list(revFiles[a][<<FALSE, item>>])

\* The events the adjacent pair (k-1, k) of the revisions of a file stands for.
PairEvents(file, k) ==
  LET curr == Range(file[k].claims)
      prev == IF k = 1 THEN {} ELSE Range(file[k - 1].claims)
      ts == file[k].timestamp
  IN {<<t[1], t[2], t[3], "+", ts>> : t \in curr \ prev}
       \cup {<<t[1], t[2], t[3], "-", ts>> : t \in prev \ curr}

\* How often x occurs in a sequence.
Count(seq, x) == Cardinality({i \in DOMAIN seq : seq[i] = x})

\* The batches the jobs of compile_triple_operations may put on the queue.
ShardBatch(a, item) == OutputLines(opFiles[a][item].lines, <<>>)
ShardBatches ==
  {ShardBatch(a, item) : a \in Archives, item \in Items} \ {<<>>}

IsPrefix(s, t) == Len(s) <= Len(t) /\ SubSeq(t, 1, Len(s)) = s

RECURSIVE WholeBatches(_)
\* The lines are whole batches, one after another.
WholeBatches(lines) ==
  \/ lines = <<>>
  \/ \E b \in ShardBatches :
       /\ IsPrefix(b, lines)
       /\ WholeBatches(SubSeq(lines, Len(b) + 1, Len(lines)))

RECURSIVE BatchesOrStarts(_)
\* The lines are batches, or the first lines of batches, one after another.
BatchesOrStarts(lines) ==
  \/ lines = <<>>
  \/ \E b \in ShardBatches : \E n \in 1..Len(b) :
       /\ IsPrefix(SubSeq(b, 1, n), lines)
       /\ BatchesOrStarts(SubSeq(lines, n + 1, Len(lines)))

\* The lines between the jobs and the end of the output file: those written,
\* those the writer holds, those on the queue.
WrittenAndPending ==
  compiled \o writerTask.m \o Flatten([i \in 1..Len(q) |-> q[i].lines])

\* ------------------------------------------------------------------------
\* The properties
\* ------------------------------------------------------------------------

\* C1: in the parse stage and in the diff stage the marker of a unit is there
\* only when all the output of the unit is written, in every state, also those
\* a kill of the process leaves: a dump with its marker has every revision a
\* run of parse_xml_dump stores in its revision files, and an item with its
\* marker has a complete file of triple operations.
MarkerImpliesOutputComplete ==
  /\ \A a \in parseMarkers :
       LET clean == CleanParse(a)
       IN /\ ~clean.raises
          /\ \A f \in clean.files : Range(f[2]) \subseteq Range(revFiles[a][f[1]])
  /\ \A u \in diffMarkers :
       /\ opFiles[u[1]][u[2]].exists
       /\ CompleteOperations(u[1], u[2], opFiles[u[1]][u[2]].lines)

\* The process was killed in the diff stage with one item marked and the file
\* of another one open.
MarkerBesidePartialOutput ==
  /\ phase = "idle" /\ exit = "killed"
  /\ parseMarkers # {}
  /\ diffMarkers # {}
  /\ \E a \in Archives, item \in Items :
       opFiles[a][item].exists /\ <<a, item>> \notin diffMarkers

\* C2: after a rerun of a dump that was interrupted, every revision file of
\* the dump holds each revision once: it is what one run from a clean slate
\* leaves.
RerunParsesFromCleanSlate ==
  \A a \in parseMarkers : \A f \in CleanParse(a).files : revFiles[a][f[1]] = f[2]

\* C3: the file of triple operations of an item holds, for every adjacent pair
\* of its revisions, one "+" event for every triple added and one "-" event for
\* every triple removed, with the timestamp of the later revision, and nothing
\* else.
DiffEmitsExactlyTheChanges ==
  \A u \in diffMarkers :
    LET file == revFiles[u[1]][<<FALSE, u[2]>>]
        lines == opFiles[u[1]][u[2]].lines
    IN \A x \in Range(lines) \cup UNION {PairEvents(file, k) : k \in 1..Len(file)} :
         Count(lines, x) = Cardinality({k \in 1..Len(file) : x \in PairEvents(file, k)})

\* C4: once an invocation of main() has completed, the next one does no work:
\* no dump is parsed, no file of triple operations is written, no job gathers
\* lines, raises or touches a marker, and nothing but the sentinel is put on
\* the queue or written.
SecondRunDoesNoWork ==
  exit = "ok" =>
    /\ \A a \in Archives :
         /\ parseTask[a].pc \notin {"parse", "failed"}
         /\ diffTask[a].pc \notin {"write", "failed"}
         /\ aggJob[a].pc \notin {"touch", "failed"}
    /\ \A i \in 1..Len(q) : q[i].kill
    /\ writerTask.pc # "write"

\* C5: a unit that raises is left without its marker and keeps no other unit
\* of its stage from being processed in the same invocation: when the tasks of
\* a stage have ended, every unit that does not raise has its marker.
ExceptionLeavesOtherUnitsProcessed ==
  /\ \A a \in Archives, item \in Items :
       (\E r \in get_triple_operations_list(revFiles[a][<<FALSE, item>>]) : r.none)
         => <<a, item>> \notin diffMarkers
  /\ (phase = "parse" /\ Finished(parseTask)) =>
       \A a \in DumpList : ~CleanParse(a).raises => a \in parseMarkers
  /\ (phase = "diff" /\ Finished(diffTask)) =>
       \A a \in revFolders : \A item \in ItemRevisionFiles(a) :
         (\E r \in get_triple_operations_list(revFiles[a][<<FALSE, item>>]) : ~r.none)
           => <<a, item>> \in diffMarkers
  /\ (phase = "agg" /\ Finished(aggJob)) =>
       \A a \in TripleOpsSubfolders : \A item \in Items :
         ShardBatch(a, item) # <<>> => <<a, item>> \in aggMarkers

\* C6: only the writer writes the output file, one line of the message it
\* holds at a time, and the jobs only put batches on the queue; so the lines of
\* a batch lie together in the file. In the first invocation the file and the
\* lines the writer holds are whole batches; after a kill the file is batches
\* and the first lines of batches.
SingleWriterKeepsBatchesTogether ==
  /\ [][compiled' # compiled =>
          /\ writerTask.pc = "write"
          /\ compiled' = Append(compiled, Head(writerTask.m))
          /\ q' = q]_vars
  /\ [](/\ BatchesOrStarts(compiled)
        /\ (runs = 1 /\ exit \in {"none", "ok"}) => WholeBatches(compiled \o writerTask.m))

\* The writer is in the middle of a batch, a batch of another job is in the
\* file and a third message waits.
WriterBetweenBatches ==
  /\ writerTask.pc = "write"
  /\ Len(compiled) >= 3
  /\ \E a \in Archives : aggJob[a].pc = "touch"

\* C7: the sentinel is put on the queue only when every job has returned and
\* nothing is put after it, the writer ends only by taking the sentinel off the
\* queue, and no batch is lost on the way: the lines written, held and queued
\* only grow at their end, and when the writer has ended nothing is left.
SentinelLastWriterDrainsQueue ==
  /\ [](\A i \in 1..Len(q) : q[i].kill =>
          /\ i = Len(q)
          /\ \A a \in Archives : aggJob[a].pc \in {"none", "done"})
  /\ [](writerTask.pc = "done" => q = <<>>)
  /\ [][(writerTask.pc # "done" /\ writerTask'.pc = "done") => (q # <<>> /\ Head(q).kill)]_vars
  /\ [][(phase \in {"agg", "aggjoin"} /\ phase' \in {"agg", "aggjoin"})
          => IsPrefix(WrittenAndPending, WrittenAndPending')]_vars

\* The writer has ended with the batches of two jobs in the file.
WriterEndedAfterTwoBatches ==
  /\ writerTask.pc = "done"
  /\ runs = 1
  /\ Len(compiled) >= 4

\* C8: a file of triple operations has its marker of the aggregation only when
\* its lines are in the output file.
ShardMarkerImpliesWritten ==
  \A u \in aggMarkers : Range(ShardBatch(u[1], u[2])) \subseteq Range(compiled)

\* The files, the queue and the markers that a call for a marked unit leaves
\* alone.
OutputUnchanged ==
  UNCHANGED <<revFolders, revFiles, redirectLogs, opFiles, compiled, dataset, q,
              parseMarkers, diffMarkers, aggMarkers>>

\* C9: a call of process_dump_file, write_item_triple_operations_to_file or
\* collect_subfolder_triple_operations_to_file for a unit that has its marker
\* goes on to the next unit and changes no output file, not the queue and no
\* marker.
MarkedUnitIsSkipped ==
  [][\A a \in Archives :
       /\ (/\ parseTask[a].pc = "pending" /\ parseTask'[a].pc \notin {"pending", "none"}
           /\ a \in parseMarkers)
            => (parseTask'[a].pc = "done" /\ OutputUnchanged)
       /\ \A item \in diffTask[a].todo \ diffTask'[a].todo :
            (diffTask'[a].pc # "none" /\ <<a, item>> \in diffMarkers)
              => (diffTask'[a].pc = "loop" /\ OutputUnchanged)
       /\ \A f \in aggJob[a].todo \ aggJob'[a].todo :
            (aggJob'[a].pc # "none" /\ f[1] = "ops" /\ <<a, f[2]>> \in aggMarkers)
              => (aggJob'[a].pc = "loop" /\ OutputUnchanged)]_vars

\* In the invocation after a completed one, a job has passed the marked file
\* of its subfolder and has the rest of its list left.
JobPassedMarkedFile ==
  /\ exit = "ok"
  /\ \E a \in Archives, item \in Items :
       /\ aggJob[a].pc = "loop"
       /\ opFiles[a][item].exists
       /\ <<a, item>> \in aggMarkers
       /\ <<"ops", item>> \notin aggJob[a].todo
       /\ aggJob[a].todo # {}

\* C10: a file of triple operations that was partly written when the process
\* was killed is written anew by the rerun: while it is written, its lines and
\* those still to come are one complete result, and with its marker it holds
\* one.
RerunRewritesPartialOperations ==
  /\ \A a \in Archives :
       diffTask[a].pc = "write" =>
         CompleteOperations(a, diffTask[a].cur,
                            opFiles[a][diffTask[a].cur].lines \o diffTask[a].ops)
  /\ \A u \in interrupted \cap diffMarkers :
       CompleteOperations(u[1], u[2], opFiles[u[1]][u[2]].lines)

\* A file that was partly written when the process was killed has its marker.
InterruptedFileRewritten ==
  \E u \in interrupted : u \in diffMarkers /\ Len(opFiles[u[1]][u[2]].lines) > 1

\* The loop of remove_duplicates over the sorted log.
Compacted == RemoveDuplicatesFrom(sorted(compiled), 1, NoneRemoved, <<>>)

\* C11: in the sorted log, two neighbours on one triple at one timestamp with
\* opposite types are both left out of the output, and the loop goes from the
\* first of them to the line after the second with triple_state_dict as it
\* was; the dataset holds the lines kept.
UndonePairsAreRemoved ==
  LET log == sorted(compiled)
      r == Compacted
      kept == Range(r.kept)
      heads == Range(r.heads)
  IN /\ \A i \in 1..(Len(log) - 1) :
          (/\ <<log[i][1], log[i][2], log[i][3]>> = <<log[i + 1][1], log[i + 1][2], log[i + 1][3]>>
           /\ log[i][5] = log[i + 1][5]
           /\ log[i][4] # log[i + 1][4])
            => /\ i \notin kept /\ (i + 1) \notin kept
               /\ \E g \in heads : g.index = i
               /\ ~\E g \in heads : g.index = i + 1
               /\ \A g, h \in heads : (g.index = i /\ h.index = i + 2) => g.dict = h.dict
     /\ (phase = "idle" /\ exit = "ok" /\ runs = 1)
          => dataset.lines = [k \in 1..Len(r.kept) |-> log[r.kept[k]]]

\* The dataset is written from a log in which a line and its undoing follow
\* a line that is kept.
UndonePairAfterKeptLine ==
  /\ phase = "idle" /\ exit = "ok" /\ runs = 1
  /\ dataset.lines # <<>>
  /\ \E i \in 2..(Len(sorted(compiled)) - 1) : IsUndonePair(sorted(compiled)[i], sorted(compiled)[i + 1])

\* C12: in the output of the Compactor the types of the lines of one triple
\* alternate: of two lines of a triple with none of that triple between them,
\* one is "+" and one is "-"; a line whose type is the one triple_state_dict
\* holds for its triple is not kept.
OutputAlternatesPerTriple ==
  LET log == sorted(compiled)
      r == Compacted
      out == r.ops
      same(i, j) == <<out[i][1], out[i][2], out[i][3]>> = <<out[j][1], out[j][2], out[j][3]>>
  IN /\ \A i, j \in 1..Len(out) :
          (i < j /\ same(i, j) /\ ~\E k \in (i + 1)..(j - 1) : same(i, k))
            => out[i][4] # out[j][4]
     /\ \A h \in Range(r.heads) :
          (/\ h.index <= Len(log)
           /\ <<log[h.index][1], log[h.index][2], log[h.index][3]>> \in DOMAIN h.dict
           /\ h.dict[<<log[h.index][1], log[h.index][2], log[h.index][3]>>] = log[h.index][4])
            => h.index \notin Range(r.kept)
     /\ (phase = "idle" /\ exit = "ok" /\ runs = 1) => dataset.lines = out

\* The dataset is written from a log in which a triple is inserted twice
\* with no delete between, the second time not on the last line.
RepeatedInsertInLog ==
  /\ phase = "idle" /\ exit = "ok" /\ runs = 1
  /\ dataset.lines # <<>>
  /\ \E h \in Range(Compacted.heads) :
       LET log == sorted(compiled)
       IN /\ h.index < Len(log)
          /\ ~IsUndonePair(log[h.index], log[h.index + 1])
          /\ <<log[h.index][1], log[h.index][2], log[h.index][3]>> \in DOMAIN h.dict
          /\ h.dict[<<log[h.index][1], log[h.index][2], log[h.index][3]>>] = log[h.index][4]

\* C13: sort_filtered_triple_operations called on the lines it wrote writes
\* the same lines again.
CompactionIsIdempotent ==
  (phase = "idle" /\ exit = "ok" /\ runs = 2) => dataset.lines = compiled

\* C18: when the first line of a triple in the sorted log is a delete, and no
\* neighbour at the same timestamp undoes it, remove_duplicates prints its
\* warning for the triple and keeps the line.
LeadingDeleteIsWarnedAndKept ==
  LET log == sorted(compiled)
      r == Compacted
      triple(i) == <<log[i][1], log[i][2], log[i][3]>>
      undone(i, j) == triple(i) = triple(j) /\ log[i][5] = log[j][5] /\ log[i][4] # log[j][4]
  IN (phase = "idle" /\ exit = "ok" /\ runs = 1) =>
       \A i \in 1..Len(log) :
         (/\ log[i][4] = "-"
          /\ \A k \in 1..(i - 1) : triple(k) # triple(i)
          /\ ~(i < Len(log) /\ undone(i, i + 1)))
           => /\ i \in Range(r.kept)
              /\ triple(i) \in Range(r.warned)
              /\ log[i] \in Range(dataset.lines)

\* The key the order of the final output is stated in: timestamp, subject,
\* object, relation and type of a line, whose second field is the relation
\* and whose third field is the object of the triple it was derived from.
StatedKey(op) ==
  <<IF op[5] = None THEN 1 ELSE 0, IF op[5] = None THEN 0 ELSE op[5][1],
    op[1], op[3], op[2], IF op[4] = "+" THEN 0 ELSE 1>>

\* C14: of two lines of the dataset the earlier one has the smaller or the
\* same timestamp, and at the same timestamp the smaller or the same
\* (subject, object, relation, type).
FinalOutputIsOrdered ==
  \A i, j \in 1..Len(dataset.lines) :
    i < j => ~KeyLess(StatedKey(dataset.lines[j]), StatedKey(dataset.lines[i]))

\* What the redirect map makes of an id: its target, or the id itself.
Resolved(dict, id) == IF id \in DOMAIN dict THEN dict[id] ELSE id

\* An event of the differ with its object resolved through the redirect map.
Folded(dict, line) == <<line[1], line[2], Resolved(dict, line[3]), line[4], line[5]>>

\* The events of the files of triple operations, as the differ wrote them.
DiffEvents ==
  UNION {Range(opFiles[a][item].lines) : a \in Archives, item \in Items}

\* The events the aggregator has put on the queue so far.
Enqueued ==
  Range(compiled) \cup Range(writerTask.m) \cup UNION {Range(q[i].lines) : i \in 1..Len(q)}

\* C15: every event the aggregator emits is an event of the diff stage with
\* its object X replaced by the target Y the redirect map gives for X, or left
\* as it is when X is no key of the map; subject and relation are unchanged.
ObjectIsFoldedThroughRedirects ==
  phase = "agg" => \A e \in Enqueued : \E line \in DiffEvents : e = Folded(redir_dict, line)

\* What the filter asks of an emitted event: subject and object in the entity
\* allow-list, relation in the relation allow-list, no self-loop.
Qualifies(e) ==
  /\ e[1] \in filtered_entities
  /\ e[3] \in filtered_entities
  /\ e[2] \in filtered_relations
  /\ e[1] # e[3]

\* C16: with the filter lists configured, every event the aggregator enqueues
\* has subject and resolved object in the entity allow-list, its relation in
\* the relation allow-list and its subject different from its resolved object,
\* and every event of a gathered file that meets the four conditions is
\* enqueued.
FilterLetsExactlyTheQualifyingThrough ==
  (phase = "agg" /\ runs = 1) =>
    /\ \A e \in Enqueued : Qualifies(e)
    /\ \A m \in aggMarkers : \A line \in Range(opFiles[m[1]][m[2]].lines) :
         Qualifies(Folded(redir_dict, line)) => Folded(redir_dict, line) \in Enqueued

\* The entity documents of a dump, in the order of its revisions.
DocsOf(a) ==
  LET texts == SelectSeq(DumpLines(a), LAMBDA line : line.tag = "text")
  IN [i \in 1..Len(texts) |-> texts[i].val]

\* The triples parse_xml_dump has got from the one document of a dump whose
\* parse is through: those of the snapshot stored for it, or none.
EmittedFor(a, doc) ==
  LET file == revFiles[a][<<FALSE, doc.id>>]
  IN IF file = <<>> THEN {} ELSE Range(file[1].claims)

\* A statement whose value is an item.
IsItemValued(c) ==
  c.snaktype = "value" /\ c.datavalue /\ c.dvtype = "wikibase-entityid" /\ c.etype = "item"

\* C17: for every relation of a snapshot document no triple of a deprecated
\* statement is emitted; if the relation has a preferred statement, no triple
\* of a normal statement is emitted; if it has only normal statements, the
\* triples of all of them that have an entity as value are emitted.
RankSelectionIsStrict ==
  \A a \in parseMarkers :
    Len(DocsOf(a)) = 1 =>
      LET doc == DocsOf(a)[1]
          emitted == EmittedFor(a, doc)
      IN \A r \in 1..Len(doc.claims) :
           LET claim_list == Range(doc.claims[r][2])
               triple(c) == <<doc.id, doc.claims[r][1], c.numid>>
               valued(rank) == {c \in claim_list : c.rank = rank /\ IsItemValued(c)}
           IN /\ \A c \in valued("deprecated") : triple(c) \notin emitted
              /\ (\E c \in claim_list : c.rank = "preferred") =>
                   \A c \in valued("normal") : triple(c) \notin emitted
              /\ (\A c \in claim_list : c.rank = "normal") =>
                   \A c \in valued("normal") : triple(c) \in emitted

\* The value of the last line with the given tag before line i.
LastBefore(lines, i, tag) ==
  lines[CHOOSE j \in 1..(i - 1) :
          lines[j].tag = tag /\ \A k \in (j + 1)..(i - 1) : lines[k].tag # tag].val

\* The revisions of the page of an item in a dump, in the order of the dump:
\* the revision id and the timestamp of each.
PageRevisions(a, item) ==
  LET lines == DumpLines(a)
      texts == SelectSeq([i \in 1..Len(lines) |-> i],
                         LAMBDA i : /\ lines[i].tag = "text"
                                    /\ LastBefore(lines, i, "title") = <<"Q", item>>)
  IN [n \in 1..Len(texts) |->
        <<Some(LastBefore(lines, texts[n], "id")), Some(LastBefore(lines, texts[n], "timestamp"))>>]

\* C19: parse_xml_dump considers every revision of a page: a page with k
\* revisions whose documents have claims yields k snapshots of its entity, in
\* the order of the dump, each with its own revision id and timestamp.
EveryRevisionYieldsASnapshot ==
  \A a \in parseMarkers :
    (runs = 1 /\ \A d \in Range(DocsOf(a)) : d.kind = "json" /\ get_truthy_claims_list(d) # <<>>) =>
      \A item \in Items :
        LET file == revFiles[a][<<FALSE, item>>]
        IN [n \in 1..Len(file) |-> <<file[n].revision, file[n].timestamp>>] = PageRevisions(a, item)

\* C20: in every state of the parse stage the first snapshot of every
\* snapshot file has claims: nothing is stored for an entity whose claim list
\* is empty while it has no snapshot file yet.
FirstSnapshotHasClaims ==
  \A a \in Archives : \A n \in RevFileNames :
    revFiles[a][n] # <<>> => Len(revFiles[a][n][1].claims) > 0

\* A dump is parsed to its end, a document of it had no claim to give, and no
\* snapshot file was made for its item.
EmptyFirstRevisionNotStored ==
  \E a \in parseMarkers : \E d \in Range(DocsOf(a)) :
    /\ get_truthy_claims_list(d) = <<>>
    /\ revFiles[a][<<FALSE, d.id>>] = <<>>

\* A unit of the first or the second pool that has not finished.
UnitsAtWork ==
  {a \in Archives : parseTask[a].pc \notin {"none", "done"} \/ diffTask[a].pc \notin {"none", "done"}}

\* C21: the phases of main() follow one another: no job of the aggregation
\* starts and the redirect map is not loaded before every parse unit and every
\* diff unit has finished, and sort_filtered_triple_operations does not read
\* the compiled file before the writer has ended.
PhasesAreSequenced ==
  [][/\ (aggJob' # aggJob \/ redir_dict' # redir_dict \/ (phase # "agg" /\ phase' = "agg")) =>
          (UnitsAtWork = {} \/ phase' = "idle")
     /\ (phase # "sort" /\ phase' = "sort") => (writerTask.pc = "done" /\ q = <<>>)
     /\ (dataset' # dataset) => (phase \in {"sort", "sortwrite"} /\ writerTask.pc = "none")]_vars

\* The compiled file of a run that parsed and diffed is about to be sorted.
SortAfterWriterEnded ==
  /\ phase = "sort"
  /\ compiled # <<>>
  /\ parseMarkers # {}
  /\ diffMarkers # {}

\* The revision files that hold a claim whose subject is not their item.
CorruptRevisionFiles ==
  {f \in Archives \X Items :
     \E n \in 1..Len(revFiles[f[1]][<<FALSE, f[2]>>]) :
       \E claim \in Range(revFiles[f[1]][<<FALSE, f[2]>>][n].claims) : claim[1] # f[2]}

\* C22: for a revision file in which a triple of any snapshot has a subject
\* that is not the owning entity, the diff stage emits no event, not even
\* those of earlier valid snapshots of the file, and writes no marker.
CorruptFileEmitsNothing ==
  \A f \in CorruptRevisionFiles :
    /\ opFiles[f[1]][f[2]].lines = <<>>
    /\ f \notin diffMarkers

\* The task of a folder has ended at a file whose second snapshot is the one
\* with the foreign subject.
AbortedAfterValidSnapshot ==
  \E f \in CorruptRevisionFiles :
    LET file == revFiles[f[1]][<<FALSE, f[2]>>]
    IN /\ Len(file) = 2
       /\ \A claim \in Range(file[1].claims) : claim[1] = f[2]
       /\ diffTask[f[1]].pc = "failed"
       /\ opFiles[f[1]][f[2]].exists

\* The (source, target) pairs create_log_entry_for_redirect_item has logged.
LoggedRedirects == UNION {Range(redirectLogs[a]) : a \in Archives}

\* C23: every redirect pair logged while parsing is in the mapping that
\* get_item_redirects_dict returns before the aggregation: the log is read
\* from where it was written.
LoggedRedirectsAreLoaded ==
  phase = "diff" =>
    \A pair \in LoggedRedirects : \A dict \in get_item_redirects_dict :
      pair[1] \in DOMAIN dict /\ dict[pair[1]] = pair[2]

\* The capacity the queue is held against: manager.Queue() is given none, so
\* the smallest a bounded queue can have stands for every capacity.
QueueCapacity == 1

\* The batches waiting in the queue.
BatchesWaiting == Cardinality({i \in 1..Len(q) : ~q[i].kill})

\* C24: the queue between the jobs and the writer is bounded: never more
\* batches wait in it than its capacity, a job waits instead of enqueueing
\* into a full queue.
QueueIsBounded == BatchesWaiting <= QueueCapacity

\* C25: a snapshot is stored only when its claim set differs from that of the
\* snapshot stored before it: no two consecutive snapshots of a snapshot file
\* have equal claim sets.
ConsecutiveSnapshotsDiffer ==
  \A a \in Archives : \A n \in RevFileNames :
    \A i \in 1..(Len(revFiles[a][n]) - 1) :
      Range(revFiles[a][n][i].claims) # Range(revFiles[a][n][i + 1].claims)

\* The line after which the record of line i starts: the last line before i
\* with one of the tags, or 0.
RecordStart(lines, i, tags) ==
  LET ends == {j \in 1..(i - 1) : lines[j].tag \in tags}
  IN IF ends = {} THEN 0 ELSE CHOOSE j \in ends : \A k \in ends : k <= j

\* The value the record of line i itself gives for a tag, if it has the line.
OwnValue(lines, i, tag, tags) ==
  LET own == {j \in (RecordStart(lines, i, tags) + 1)..(i - 1) : lines[j].tag = tag}
  IN IF own = {} THEN None ELSE Some(lines[CHOOSE j \in own : \A k \in own : k <= j].val)

\* C26: no field of one record is used for a later one: every stored
\* snapshot is that of a <text> line with the revision id, the timestamp and
\* the format of that line's own revision, or None for a line it lacks, under
\* the title of its own page, and its file is a redirected_ file only if its
\* own page has a redirect line.
NoFieldLeaksIntoNextRecord ==
  \A a \in Archives : \A name \in RevFileNames : \A n \in 1..Len(revFiles[a][name]) :
    LET snapshot == revFiles[a][name][n]
        lines == DumpLines(a)
    IN \E i \in 1..Len(lines) :
         /\ lines[i].tag = "text"
         /\ OwnValue(lines, i, "title", {"endpage"}) = Some(snapshot.item_id)
         /\ snapshot.revision = OwnValue(lines, i, "id", {"endpage", "endrevision"})
         /\ snapshot.timestamp = OwnValue(lines, i, "timestamp", {"endpage", "endrevision"})
         /\ OwnValue(lines, i, "format", {"endpage", "endrevision"}) = Some("application/json")
         /\ name[1] => OwnValue(lines, i, "redirect", {"endpage"}) # None

\* A dump is parsed to its end in which a revision without id and timestamp
\* follows the page of another item: its snapshot is stored without them.
RevisionWithoutIdStored ==
  \E a \in parseMarkers :
    /\ revFiles[a][<<FALSE, 1>>] # <<>>
    /\ revFiles[a][<<FALSE, 2>>] # <<>>
    /\ revFiles[a][<<FALSE, 2>>][1].revision = None
    /\ revFiles[a][<<FALSE, 2>>][1].timestamp = None

\* C27: the aggregation ends for every size of the pool from 1 on: every job
\* runs in the end, the sentinel is put on the queue and the writer ends, so
\* that compile_triple_operations returns.
AggregationTerminates == <>(phase = "sort")

\* Two lines of one triple.
SameTriple(x, y) == x[1] = y[1] /\ x[2] = y[2] /\ x[3] = y[3]

\* The places of a sorted log whose event is no half of a cancelling pair
\* (no neighbour of its triple and timestamp with the other type) and no
\* repeat (no earlier event of its triple).
LoneFirstEvents(ops) ==
  {i \in 1..Len(ops) :
     /\ \A j \in {i - 1, i + 1} \cap 1..Len(ops) :
          ~(SameTriple(ops[i], ops[j]) /\ ops[i][5] = ops[j][5] /\ ops[i][4] # ops[j][4])
     /\ \A j \in 1..(i - 1) : ~SameTriple(ops[i], ops[j])}

\* C28: remove_duplicates keeps every event that is neither half of a
\* cancelling pair nor a repeat, wherever it stands in the sorted log; a log
\* of a single insert is returned as it is.
EveryLoneEventIsKept ==
  (phase = "idle" /\ exit = "ok" /\ runs = 1) =>
    LET ops == sorted(compiled)
    IN \A i \in LoneFirstEvents(ops) : ops[i] \in Range(dataset.lines)

\* How often the shards give an event to enqueue, each shard gathered once.
RECURSIVE TimesGathered(_, _)
TimesGathered(e, shards) ==
  IF shards = {} THEN 0
  ELSE LET f == CHOOSE f \in shards : TRUE
       IN Count(ShardBatch(f[1], f[2]), e) + TimesGathered(e, shards \ {f})

\* C29: after any runs and interruptions that end with a run that completed,
\* the events of every shard that pass the filter are in the compiled file
\* exactly once: a shard interrupted between its q.put and its marker is not
\* appended a second time.
ShardEventsAppearOnce ==
  (phase = "idle" /\ exit = "ok") =>
    \A e \in Range(compiled) \cup UNION {Range(b) : b \in ShardBatches} :
      Count(compiled, e) = TimesGathered(e, Archives \X Items)
====
